---------------------------- MODULE Spec2Model ----------------------------
(***************************************************************************)
(* Model of src-tauri/src/encryption.rs: the machine-fingerprint resolver, *)
(* the pad/truncate key derivation and the length-prefixed container codec *)
(* (encrypt_json / decrypt_json / config_exists).                          *)
(*                                                                         *)
(* A Rust String is modelled as the sequence of its UTF-8 bytes (0..255),  *)
(* a char as the 1..4 bytes of its encoding, an Option as a record with a  *)
(* `some` flag, and a Result as a record with a `tag` of "Ok", "Err" or    *)
(* "Panic" (an unwinding panic is not a returned value).                   *)
(***************************************************************************)
EXTENDS Integers, Sequences, FiniteSets, TLC

VARIABLES env, file, origin, call, procs, nCalls, nEnvChanges

vars == <<env, file, origin, call, procs, nCalls, nEnvChanges>>

-----------------------------------------------------------------------------
(* Bounds of the model *)

\* longest prefix of LongHost used as a hostname
MaxHostLen == 23
\* a mislabelled container declares a length within MaxSkew of the real one
MaxSkew == 17
\* a container cut short keeps at most this many bytes
MaxTruncLen == 6
\* interface lists hold at most this many adapters
MaxIfaces == 3
\* command invocations in one run of SpecCodec
MaxCalls == 2
\* concurrent invocations of the commands
NumProcs == 2
\* changes of the machine's interfaces / hostname during a run
MaxEnvChanges == 1

-----------------------------------------------------------------------------
(* Program constants *)

KeyLen == 32
IvLen == 16
BlockSize == 16

\* "902E168B9AC1"
FallbackMac == <<57,48,50,69,49,54,56,66,57,65,67,49>>
\* "unknown"
UnknownHost == <<117,110,107,110,111,119,110>>
\* "T"
DefaultKeyChar == <<84>>
\* "MAC="
MacPrefix == <<77,65,67,61>>
\* "HOST="
HostPrefix == <<72,79,83,84,61>>
\* "KEY_CHAR="
KeyCharPrefix == <<75,69,89,95,67,72,65,82,61>>
\* ';'
Semi == 59

None == [some |-> FALSE]
Some(v) == [some |-> TRUE, v |-> v]

-----------------------------------------------------------------------------
(* Strings as UTF-8 byte sequences *)

IsCont(b) == b >= 128 /\ b <= 191

\* Byte length of the well-formed UTF-8 character starting at s[i]; 0 when
\* no well-formed character starts there.
CharLenAt(s, i) ==
  LET b == s[i]
      has(k) == i + k <= Len(s)
  IN  IF b < 128 THEN 1
      ELSE IF b >= 194 /\ b <= 223
        THEN IF has(1) /\ IsCont(s[i+1]) THEN 2 ELSE 0
      ELSE IF b >= 224 /\ b <= 239
        THEN IF has(2) /\ IsCont(s[i+1]) /\ IsCont(s[i+2])
                /\ (b = 224 => s[i+1] >= 160) /\ (b = 237 => s[i+1] <= 159)
             THEN 3 ELSE 0
      ELSE IF b >= 240 /\ b <= 244
        THEN IF has(3) /\ IsCont(s[i+1]) /\ IsCont(s[i+2]) /\ IsCont(s[i+3])
                /\ (b = 240 => s[i+1] >= 144) /\ (b = 244 => s[i+1] <= 143)
             THEN 4 ELSE 0
      ELSE 0

RECURSIVE Utf8ValidFrom(_, _)
Utf8ValidFrom(s, i) ==
  IF i > Len(s) THEN TRUE
  ELSE LET n == CharLenAt(s, i)
       IN  n > 0 /\ Utf8ValidFrom(s, i + n)

\* String::from_utf8(bytes).is_ok()
Utf8Valid(s) == Utf8ValidFrom(s, 1)

\* str::is_char_boundary(idx), idx a 0-based byte offset
IsCharBoundary(s, idx) ==
  \/ idx = 0
  \/ idx = Len(s)
  \/ idx < Len(s) /\ ~IsCont(s[idx + 1])

\* s.chars().next(): the first char of a (valid) string, None when empty
FirstChar(s) ==
  IF Len(s) = 0 THEN None ELSE Some(SubSeq(s, 1, CharLenAt(s, 1)))

\* opt.unwrap_or(d)
UnwrapOr(opt, d) == IF opt.some THEN opt.v ELSE d

\* haystack.contains(needle)
Contains(h, n) ==
  \E i \in 0..(Len(h) - Len(n)) : SubSeq(h, i + 1, i + Len(n)) = n

\* part.strip_prefix(p)
StripPrefix(s, p) ==
  IF Len(s) >= Len(p) /\ SubSeq(s, 1, Len(p)) = p
  THEN Some(SubSeq(s, Len(p) + 1, Len(s)))
  ELSE None

\* str::to_lowercase on the ASCII letters (adapter names are ASCII)
ToLowercase(s) ==
  [i \in 1..Len(s) |-> IF s[i] >= 65 /\ s[i] <= 90 THEN s[i] + 32 ELSE s[i]]

\* s.split(';'): the parts between separators, empty parts included
RECURSIVE SplitFrom(_, _, _)
SplitFrom(s, i, cur) ==
  IF i > Len(s) THEN <<cur>>
  ELSE IF s[i] = Semi THEN <<cur>> \o SplitFrom(s, i + 1, <<>>)
  ELSE SplitFrom(s, i + 1, Append(cur, s[i]))

Split(s) == SplitFrom(s, 1, <<>>)

-----------------------------------------------------------------------------
(* Key derivation: pad_with_char, get_key *)

RECURSIVE PadLoop(_, _, _)
PadLoop(s, length, padChar) ==
  IF Len(s) < length THEN PadLoop(s \o padChar, length, padChar) ELSE s

\* String::truncate panics when the new length is not a char boundary.
pad_with_char(input, length, padChar) ==
  IF Len(input) > length
  THEN IF IsCharBoundary(input, length)
       THEN [panic |-> FALSE, s |-> SubSeq(input, 1, length)]
       ELSE [panic |-> TRUE, s |-> <<>>]
  ELSE [panic |-> FALSE, s |-> PadLoop(input, length, padChar)]

get_key(keyLength, computerInfo, padChar) ==
  pad_with_char(computerInfo, keyLength, padChar)

-----------------------------------------------------------------------------
(* Fingerprint resolver: get_mac_for_metadata, get_hostname_for_metadata,  *)
(* get_computer_info.  The machine is `env`: what `ipconfig /all` reports  *)
(* (env.ipconfigOk, env.adapters: the per-adapter records of name and      *)
(* "Physical Address" with separators stripped, empty when the section has *)
(* none) and what the OS hostname query returns (env.hostOk, env.host).    *)

\* "virtual", "vpn", "vethernet", "loopback", "ethernet", "wi-fi", "wlan"
KwVirtual == <<118,105,114,116,117,97,108>>
KwVpn == <<118,112,110>>
KwVethernet == <<118,101,116,104,101,114,110,101,116>>
KwLoopback == <<108,111,111,112,98,97,99,107>>
KwEthernet == <<101,116,104,101,114,110,101,116>>
KwWifi == <<119,105,45,102,105>>
KwWlan == <<119,108,97,110>>

\* IsPreferred without its "virtual" exclusion
IsPreferredNoVirtual(name) ==
  LET nameLower == ToLowercase(name)
  IN  /\ ~Contains(nameLower, KwVpn)
      /\ ~Contains(nameLower, KwVethernet)
      /\ ~Contains(nameLower, KwLoopback)
      /\ \/ Contains(nameLower, KwEthernet) /\ ~Contains(nameLower, KwVethernet)
         \/ Contains(nameLower, KwWifi)
         \/ Contains(nameLower, KwWlan)

\* the condition of the first selection pass
IsPreferred(name) ==
  LET nameLower == ToLowercase(name)
  IN  /\ ~Contains(nameLower, KwVirtual)
      /\ ~Contains(nameLower, KwVpn)
      /\ ~Contains(nameLower, KwVethernet)
      /\ ~Contains(nameLower, KwLoopback)
      /\ \/ Contains(nameLower, KwEthernet) /\ ~Contains(nameLower, KwVethernet)
         \/ Contains(nameLower, KwWifi)
         \/ Contains(nameLower, KwWlan)

\* the condition of the fallback pass
IsNotLoopback(name) == ~Contains(ToLowercase(name), KwLoopback)

\* the interfaces vector: adapters that reported a MAC, in report order
Interfaces(e) ==
  IF e.ipconfigOk THEN SelectSeq(e.adapters, LAMBDA a : a.mac # <<>>) ELSE <<>>

\* MAC of the first interface whose index is in idx, "" when idx is empty
FirstMacAmong(interfaces, idx) ==
  IF idx = {} THEN <<>>
  ELSE interfaces[CHOOSE i \in idx : \A j \in idx : i <= j].mac

get_mac_for_metadata(e) ==
  LET interfaces == Interfaces(e)
      first == FirstMacAmong(interfaces,
                 {i \in 1..Len(interfaces) : IsPreferred(interfaces[i].name)})
      second == IF first = <<>>
                THEN FirstMacAmong(interfaces,
                       {i \in 1..Len(interfaces) : IsNotLoopback(interfaces[i].name)})
                ELSE first
  IN  IF second = <<>> THEN FallbackMac ELSE second

\* OsStr::to_string_lossy: well-formed characters are kept, every maximal
\* ill-formed piece becomes U+FFFD (EF BF BD).
RECURSIVE ToStringLossyFrom(_, _)
ToStringLossyFrom(s, i) ==
  IF i > Len(s) THEN <<>>
  ELSE LET n == CharLenAt(s, i)
           need == IF s[i] >= 194 /\ s[i] <= 223 THEN 1
                   ELSE IF s[i] >= 224 /\ s[i] <= 239 THEN 2
                   ELSE IF s[i] >= 240 /\ s[i] <= 244 THEN 3 ELSE 0
           okSecond == i + 1 <= Len(s) /\ IsCont(s[i+1])
                       /\ (s[i] = 224 => s[i+1] >= 160) /\ (s[i] = 237 => s[i+1] <= 159)
                       /\ (s[i] = 240 => s[i+1] >= 144) /\ (s[i] = 244 => s[i+1] <= 143)
           okThird == okSecond /\ i + 2 <= Len(s) /\ IsCont(s[i+2])
           bad == IF need >= 2 /\ okSecond
                  THEN (IF need = 3 /\ okThird THEN 3 ELSE 2)
                  ELSE 1
       IN  IF n > 0
           THEN SubSeq(s, i, i + n - 1) \o ToStringLossyFrom(s, i + n)
           ELSE <<239, 191, 189>> \o ToStringLossyFrom(s, i + bad)

ToStringLossy(s) == ToStringLossyFrom(s, 1)

get_hostname_for_metadata(e) ==
  IF e.hostOk THEN ToStringLossy(e.host) ELSE UnknownHost

get_computer_info(e) ==
  get_mac_for_metadata(e) \o get_hostname_for_metadata(e)

-----------------------------------------------------------------------------
(* AES-256-CBC with PKCS7 (encrypt_data, decrypt_data).  The `aes` and     *)
(* `cbc` crates are external: the AES block function is abstracted by a    *)
(* keyed byte-wise bijection on 16-byte blocks (a stand-in, not AES);      *)
(* the key/IV length check, the CBC chaining and the PKCS7 padding rules   *)
(* are those of the crates.                                                *)

\* Round key of the stand-in block function: both halves of the 32-byte key
RoundKey(key) == [i \in 1..BlockSize |-> (key[i] + 3 * key[i + BlockSize]) % 256]

\* PKCS7: always 1..16 bytes of padding, each holding the pad length
Pkcs7Pad(data) ==
  LET paddingLen == BlockSize - (Len(data) % BlockSize)
  IN  data \o [i \in 1..paddingLen |-> paddingLen]

\* the unpadded length, or -1 for an invalid pad
Pkcs7UnpadLen(buf) ==
  LET n == buf[Len(buf)]
  IN  IF n = 0 \/ n > BlockSize THEN -1
      ELSE IF \A i \in (Len(buf) - n + 1)..Len(buf) : buf[i] = n
           THEN Len(buf) - n ELSE -1

\* c[n] = E_k(p[n] (+) c[n - 16]), c[-15..0] = iv
CbcEncrypt(key, iv, padded) ==
  LET rk == RoundKey(key)
      c[n \in 1..Len(padded)] ==
        (padded[n] + (IF n <= BlockSize THEN iv[n] ELSE c[n - BlockSize])
           + rk[((n - 1) % BlockSize) + 1]) % 256
  IN  [n \in 1..Len(padded) |-> c[n]]

\* p[n] = D_k(c[n]) (-) c[n - 16]
CbcDecrypt(key, iv, buf) ==
  LET rk == RoundKey(key)
  IN  [n \in 1..Len(buf) |->
        (buf[n] + 512 - (IF n <= BlockSize THEN iv[n] ELSE buf[n - BlockSize])
           - rk[((n - 1) % BlockSize) + 1]) % 256]

\* Aes256Cbc*::new_from_slices: InvalidLength unless 32 / 16 bytes
CipherAccepts(key, iv) == Len(key) = KeyLen /\ Len(iv) = IvLen

encrypt_data(data, key, iv) ==
  IF ~CipherAccepts(key, iv)
  THEN [ok |-> FALSE, msg |-> "Error creating cipher", v |-> <<>>]
  ELSE [ok |-> TRUE, msg |-> "", v |-> CbcEncrypt(key, iv, Pkcs7Pad(data))]

decrypt_data(encryptedData, key, iv) ==
  IF ~CipherAccepts(key, iv)
  THEN [ok |-> FALSE, msg |-> "Error creating cipher", v |-> <<>>]
  ELSE IF Len(encryptedData) = 0 \/ Len(encryptedData) % BlockSize # 0
  THEN [ok |-> FALSE, msg |-> "Error during decryption", v |-> <<>>]
  ELSE LET buf == CbcDecrypt(key, iv, encryptedData)
           n == Pkcs7UnpadLen(buf)
       IN  IF n < 0
           THEN [ok |-> FALSE, msg |-> "Error during decryption", v |-> <<>>]
           ELSE [ok |-> TRUE, msg |-> "", v |-> SubSeq(buf, 1, n)]

-----------------------------------------------------------------------------
(* Container codec: the in-memory part of encrypt_json *)

\* u32::to_le_bytes of a length (lengths here are far below 2^32, so the
\* `as u32` cast loses nothing)
ToLeBytes(n) ==
  <<n % 256, (n \div 256) % 256, (n \div 65536) % 256, (n \div 16777216) % 256>>

\* format!("MAC={};HOST={};KEY_CHAR={};", mac_address, hostname, char_key)
FormatMetadata(mac, hostname, charKey) ==
  MacPrefix \o mac \o <<Semi>> \o HostPrefix \o hostname \o <<Semi>>
    \o KeyCharPrefix \o charKey \o <<Semi>>

\* MetadataLenBytes counting characters (metadata.chars().count()) instead
\* of bytes
MetadataLenChars(metadataBytes) ==
  ToLeBytes(Cardinality({i \in 1..Len(metadataBytes) : ~IsCont(metadataBytes[i])}))

\* the length prefix written in front of the metadata
MetadataLenBytes(metadataBytes) == ToLeBytes(Len(metadataBytes))

\* encrypt_json from its start to final_data: computerInfo is what
\* get_computer_info returned, mac / hostname what the two metadata
\* resolver calls returned.
BuildContainer(jsonData, charKeyOpt, computerInfo, mac, hostname) ==
  LET charKey == UnwrapOr(charKeyOpt, DefaultKeyChar)
      charKeyChar == UnwrapOr(FirstChar(charKey), DefaultKeyChar)
      metadata == FormatMetadata(mac, hostname, charKey)
      key == get_key(KeyLen, computerInfo, charKeyChar)
      iv == get_key(IvLen, computerInfo, charKeyChar)
      enc == encrypt_data(jsonData, key.s, iv.s)
      base == [tag |-> "Ok", msg |-> "", metadata |-> metadata,
               key |-> key.s, iv |-> iv.s, finalData |-> <<>>]
  IN  IF key.panic \/ iv.panic
      THEN [base EXCEPT !.tag = "Panic", !.msg = "truncate: not a char boundary"]
      ELSE IF ~enc.ok
      THEN [base EXCEPT !.tag = "Err", !.msg = "Encryption error"]
      ELSE [base EXCEPT !.finalData =
              MetadataLenBytes(metadata) \o metadata \o enc.v]

-----------------------------------------------------------------------------
(* Container codec: decrypt_json on the bytes fs::read returned *)

\* u32::from_le_bytes(..) as usize, kept as two 16-bit limbs (the value can
\* exceed the checker's integers); usize is taken to be 64 bits wide, so
\* 4 + metadata_len cannot wrap.
MetadataLen(data) ==
  [lo |-> data[1] + 256 * data[2], hi |-> data[3] + 256 * data[4]]

\* MetadataFits comparing against metadata_len alone, the 4-byte prefix
\* forgotten
MetadataFitsNoPrefix(data, metadataLen) ==
  ~(metadataLen.hi > 0 \/ Len(data) < metadataLen.lo)

\* `encrypted_data.len() < 4 + metadata_len` is false.  Model files are
\* shorter than 65536 bytes, so a length with a non-zero high limb never fits.
MetadataFits(data, metadataLen) ==
  ~(metadataLen.hi > 0 \/ Len(data) < 4 + metadataLen.lo)

\* the range 4..4 + metadata_len lies within the slice (else indexing panics)
SliceInRange(data, metadataLen) ==
  metadataLen.hi = 0 /\ 4 + metadataLen.lo <= Len(data)

\* one iteration of `for part in metadata_str.split(';')`
ParsePart(acc, part) ==
  LET macVal == StripPrefix(part, MacPrefix)
      hostVal == StripPrefix(part, HostPrefix)
      keyVal == StripPrefix(part, KeyCharPrefix)
  IN  IF macVal.some THEN [acc EXCEPT !.mac = macVal.v]
      ELSE IF hostVal.some THEN [acc EXCEPT !.hostname = hostVal.v]
      ELSE IF keyVal.some /\ keyVal.v # <<>>
        THEN [acc EXCEPT !.keyChar = UnwrapOr(FirstChar(keyVal.v), DefaultKeyChar)]
      ELSE acc

RECURSIVE ParseParts(_, _, _)
ParseParts(parts, i, acc) ==
  IF i > Len(parts) THEN acc
  ELSE ParseParts(parts, i + 1, ParsePart(acc, parts[i]))

\* mac, hostname and key_char after the parse loop
ParseMetadata(metadataStr, charKeyOpt) ==
  ParseParts(Split(metadataStr), 1,
    [mac |-> <<>>, hostname |-> <<>>,
     keyChar |-> UnwrapOr(FirstChar(UnwrapOr(charKeyOpt, DefaultKeyChar)),
                          DefaultKeyChar)])

\* decrypt_json after the read.  `stage` is the last step reached and
\* `cipherInput` the bytes handed to decrypt_data (when it was reached).
DecryptBytes(data, charKeyOpt) ==
  LET base == [tag |-> "Err", msg |-> "", json |-> <<>>, stage |-> "size",
               cipherInput |-> <<>>, mac |-> <<>>, hostname |-> <<>>]
  IN
  IF Len(data) < 4
  THEN [base EXCEPT !.msg = "File is too small to contain valid data"]
  ELSE
  LET metadataLen == MetadataLen(data) IN
  IF ~MetadataFits(data, metadataLen)
  THEN [base EXCEPT !.msg = "File is too small to contain complete metadata",
                    !.stage = "metadata_len"]
  ELSE IF ~SliceInRange(data, metadataLen)
  THEN [base EXCEPT !.tag = "Panic", !.msg = "slice index out of range",
                    !.stage = "metadata"]
  ELSE
  LET metadataBytes == SubSeq(data, 5, 4 + metadataLen.lo) IN
  IF ~Utf8Valid(metadataBytes)
  THEN [base EXCEPT !.msg = "Invalid metadata encoding", !.stage = "metadata"]
  ELSE
  LET parsed == ParseMetadata(metadataBytes, charKeyOpt)
      computerInfo == parsed.mac \o parsed.hostname
      key == get_key(KeyLen, computerInfo, parsed.keyChar)
      iv == get_key(IvLen, computerInfo, parsed.keyChar)
      actual == SubSeq(data, 5 + metadataLen.lo, Len(data))
      seen == [base EXCEPT !.mac = parsed.mac, !.hostname = parsed.hostname]
  IN
  IF key.panic \/ iv.panic
  THEN [seen EXCEPT !.tag = "Panic", !.msg = "truncate: not a char boundary",
                    !.stage = "derive"]
  ELSE
  LET dec == decrypt_data(actual, key.s, iv.s) IN
  IF ~dec.ok
  THEN [seen EXCEPT !.msg = "Decryption error", !.stage = "cipher",
                    !.cipherInput = actual]
  ELSE IF ~Utf8Valid(dec.v)
  THEN [seen EXCEPT !.msg = "Failed to convert decrypted data to string",
                    !.stage = "utf8", !.cipherInput = actual]
  ELSE [seen EXCEPT !.tag = "Ok", !.msg = "Decryption successful",
                    !.json = dec.v, !.stage = "done", !.cipherInput = actual]

\* decrypt_json: NoFile makes fs::read fail
NoFile == <<-1>>

DecryptJson(content, charKeyOpt) ==
  IF content = NoFile
  THEN [tag |-> "Err", msg |-> "Failed to read file", json |-> <<>>,
        stage |-> "read", cipherInput |-> <<>>, mac |-> <<>>, hostname |-> <<>>]
  ELSE DecryptBytes(content, charKeyOpt)

-----------------------------------------------------------------------------
(* Inputs the specifications draw from *)

\* "AABBCCDDEEFF"
MacEth == <<65,65,66,66,67,67,68,68,69,69,70,70>>
\* "00FF11223344"
MacWifi == <<48,48,70,70,49,49,50,50,51,51,52,52>>
\* "0A0027000011"
MacVBox == <<48,65,48,48,50,55,48,48,48,48,49,49>>
\* "00155D0A0B0C"
MacHyperV == <<48,48,49,53,53,68,48,65,48,66,48,67>>
\* "005056C00001"
MacVpn == <<48,48,53,48,53,54,67,48,48,48,48,49>>
\* "020000000001"
MacLoop == <<48,50,48,48,48,48,48,48,48,48,48,49>>

\* "Ethernet adapter Ethernet"
AdEth == [kind |-> "physical", mac |-> MacEth, name |->
  <<69,116,104,101,114,110,101,116,32,97,100,97,112,116,101,114,32,69,116,104,101,114,110,101,116>>]
\* "Wireless LAN adapter Wi-Fi"
AdWifi == [kind |-> "wireless", mac |-> MacWifi, name |->
  <<87,105,114,101,108,101,115,115,32,76,65,78,32,97,100,97,112,116,101,114,32,87,105,45,70,105>>]
\* "Ethernet adapter VirtualBox Host-Only Network"
AdVBox == [kind |-> "virtual", mac |-> MacVBox, name |->
  <<69,116,104,101,114,110,101,116,32,97,100,97,112,116,101,114,32,86,105,114,116,117,97,108,66,111,120,32,72,111,115,116,45,79,110,108,121,32,78,101,116,119,111,114,107>>]
\* "Ethernet adapter vEthernet (Default Switch)"
AdHyperV == [kind |-> "virtual", mac |-> MacHyperV, name |->
  <<69,116,104,101,114,110,101,116,32,97,100,97,112,116,101,114,32,118,69,116,104,101,114,110,101,116,32,40,68,101,102,97,117,108,116,32,83,119,105,116,99,104,41>>]
\* "PPP adapter Corporate VPN"
AdVpn == [kind |-> "vpn", mac |-> MacVpn, name |->
  <<80,80,80,32,97,100,97,112,116,101,114,32,67,111,114,112,111,114,97,116,101,32,86,80,78>>]
\* "Tunnel adapter Loopback Pseudo-Interface 1"
AdLoop == [kind |-> "loopback", mac |-> MacLoop, name |->
  <<84,117,110,110,101,108,32,97,100,97,112,116,101,114,32,76,111,111,112,98,97,99,107,32,80,115,101,117,100,111,45,73,110,116,101,114,102,97,99,101,32,49>>]
\* "Tunnel adapter Teredo": a section without a Physical Address line
AdNoMac == [kind |-> "tunnel", mac |-> <<>>, name |->
  <<84,117,110,110,101,108,32,97,100,97,112,116,101,114,32,84,101,114,101,100,111>>]

Adapters == {AdEth, AdWifi, AdVBox, AdHyperV, AdVpn, AdLoop, AdNoMac}

\* reports of up to MaxIfaces distinct adapters, in every order
RECURSIVE AdapterLists(_)
AdapterLists(n) ==
  IF n = 0 THEN {<<>>}
  ELSE LET shorter == AdapterLists(n - 1)
       IN  shorter \cup
           {Append(l, a) : l \in {x \in shorter : Len(x) = n - 1}, a \in Adapters}

DistinctLists ==
  {l \in AdapterLists(MaxIfaces) : \A i, j \in 1..Len(l) : i # j => l[i] # l[j]}

\* "WORKSTATION-01234567;89"
LongHost ==
  <<87,79,82,75,83,84,65,84,73,79,78,45,48,49,50,51,52,53,54,55,59,56,57>>
\* "HOST1"
HostShort == <<72,79,83,84,49>>
\* "SRVé": with a 12-byte MAC the 'é' occupies bytes 16 and 17 of the identity
HostAccent == <<83,82,86,195,169>>
\* "a;b"
HostSemi == <<97,59,98>>
\* "a=b"
HostEq == <<97,61,98>>
\* "PC" followed by a byte that is not UTF-8 (to_string_lossy replaces it)
HostRaw == <<80,67,255>>

Min(a, b) == IF a < b THEN a ELSE b

HostPrefixes == {SubSeq(LongHost, 1, Min(n, Len(LongHost))) : n \in 0..MaxHostLen}

\* "T", "X", ";", "é", "€"
PadChars == {<<84>>, <<88>>, <<59>>, <<195,169>>, <<226,130,172>>}

Identities ==
  {m \o h : m \in {FallbackMac, MacEth},
            h \in HostPrefixes \cup {HostShort, HostAccent, HostSemi, HostEq}}

DefaultEnv ==
  [ipconfigOk |-> TRUE, adapters |-> <<AdEth>>, hostOk |-> TRUE, host |-> HostShort]

Procs == 1..NumProcs

\* an invocation slot: where the command stands and what it holds in memory
IdleProc ==
  [pc |-> "idle", op |-> "", jsonData |-> <<>>, computerInfo |-> <<>>,
   mac |-> <<>>, hostname |-> <<>>, finalData |-> <<>>, data |-> <<>>,
   tag |-> "", msg |-> ""]

NoOrigin == [kind |-> "none"]

\* no command has run on the current file yet
NoCall == [op |-> "none"]

-----------------------------------------------------------------------------
(* SpecKey: the key derivation applied to every identity and pad char *)

InitKey ==
  /\ env = DefaultEnv
  /\ file = NoFile
  /\ origin = NoOrigin
  /\ procs = [p \in Procs |-> IdleProc]
  /\ nCalls = 0
  /\ nEnvChanges = 0
  /\ call \in {[op |-> "get_key", done |-> FALSE, identity |-> id, ch |-> c,
                key |-> [panic |-> FALSE, s |-> <<>>],
                iv |-> [panic |-> FALSE, s |-> <<>>]] :
               id \in Identities, c \in PadChars}

DeriveKey ==
  /\ call.op = "get_key" /\ ~call.done
  /\ call' = [call EXCEPT !.done = TRUE,
                          !.key = get_key(KeyLen, call.identity, call.ch),
                          !.iv = get_key(IvLen, call.identity, call.ch)]
  /\ UNCHANGED <<env, file, origin, procs, nCalls, nEnvChanges>>

NextKey == DeriveKey

SpecKey == InitKey /\ [][NextKey]_vars

\* k copies of the char ch
RECURSIVE Repeat(_, _)
Repeat(ch, k) == IF k <= 0 THEN <<>> ELSE ch \o Repeat(ch, k - 1)

\* C4: get_key(n, identity, char) returns exactly n bytes: the first n
\* bytes of identity when it is longer than n, otherwise identity followed
\* by copies of char up to length n (n = 32 for the key, 16 for the IV).
KeyRule(n, identity, ch, out) ==
  /\ ~out.panic
  /\ Len(out.s) = n
  /\ Len(identity) > n => out.s = SubSeq(identity, 1, n)
  /\ Len(identity) <= n =>
       \E k \in 0..n : out.s = identity \o Repeat(ch, k)

C4_KeyDerivationRule ==
  (call.op = "get_key" /\ call.done) =>
     /\ KeyRule(KeyLen, call.identity, call.ch, call.key)
     /\ KeyRule(IvLen, call.identity, call.ch, call.iv)

-----------------------------------------------------------------------------
(* SpecMac: the MAC selection applied to every adapter report *)

InitMac ==
  /\ env \in {[ipconfigOk |-> ok, adapters |-> l, hostOk |-> TRUE, host |-> HostShort] :
                ok \in BOOLEAN, l \in DistinctLists}
  /\ file = NoFile
  /\ origin = NoOrigin
  /\ procs = [p \in Procs |-> IdleProc]
  /\ nCalls = 0
  /\ nEnvChanges = 0
  /\ call = [op |-> "get_mac", done |-> FALSE, mac |-> <<>>]

ResolveMac ==
  /\ call.op = "get_mac" /\ ~call.done
  /\ call' = [call EXCEPT !.done = TRUE, !.mac = get_mac_for_metadata(env)]
  /\ UNCHANGED <<env, file, origin, procs, nCalls, nEnvChanges>>

NextMac == ResolveMac

SpecMac == InitMac /\ [][NextMac]_vars

Kinds(l) == {l[i].kind : i \in 1..Len(l)}

\* the report holds exactly one virtual and one physical Ethernet adapter
OneVirtualOnePhysical(l) ==
  /\ Len(l) = 2
  /\ Kinds(l) = {"virtual", "physical"}

\* the report holds only loopback and virtual adapters, at least one of each
OnlyLoopbackAndVirtual(l) == Kinds(l) = {"loopback", "virtual"}

PhysicalMac(l) == (CHOOSE a \in {l[i] : i \in 1..Len(l)} : a.kind = "physical").mac

FirstVirtualMac(l) ==
  l[CHOOSE i \in 1..Len(l) :
      l[i].kind = "virtual" /\ \A j \in 1..(i - 1) : l[j].kind # "virtual"].mac

MacResolved == call.op = "get_mac" /\ call.done /\ env.ipconfigOk

\* C5 as stated: one virtual and one physical Ethernet adapter, in either
\* order, give the physical adapter's MAC; only loopback and virtual
\* adapters give the last-resort fixed MAC 902E168B9AC1.
C5_Original ==
  MacResolved =>
     /\ OneVirtualOnePhysical(env.adapters) => call.mac = PhysicalMac(env.adapters)
     /\ OnlyLoopbackAndVirtual(env.adapters) => call.mac = FallbackMac

\* C5 as amended: one virtual and one physical Ethernet adapter, in either
\* order, give the physical adapter's MAC; only loopback and virtual
\* adapters give the MAC of the first virtual adapter (the fallback pass
\* takes the first non-loopback interface); only loopback adapters, or a
\* failed enumeration, give the fixed MAC 902E168B9AC1.
C5_MacSelectionPriority ==
  (call.op = "get_mac" /\ call.done) =>
     IF ~env.ipconfigOk THEN call.mac = FallbackMac
     ELSE /\ OneVirtualOnePhysical(env.adapters) =>
               call.mac = PhysicalMac(env.adapters)
          /\ OnlyLoopbackAndVirtual(env.adapters) =>
               call.mac = FirstVirtualMac(env.adapters)
          /\ (Kinds(env.adapters) = {"loopback"}) => call.mac = FallbackMac

\* a virtual adapter listed before the physical one, and the physical chosen
C5_Witness ==
  /\ MacResolved
  /\ env.adapters = <<AdVBox, AdEth>>
  /\ call.mac = MacEth

-----------------------------------------------------------------------------
(* The file at the output location.  fs::write is File::create (which      *)
(* truncates an existing file) followed by write_all from offset 0.        *)

\* File::create on the path: the file exists and is empty
FileCreate(old) == <<>>

\* write(2) of `bytes` at offset 0 of a file holding `content`
WriteAt0(content, bytes) ==
  bytes \o SubSeq(content, Len(bytes) + 1, Len(content))

\* how an attempt to persist can end: create_dir_all fails, File::create
\* fails, write_all fails after `written` bytes, or everything succeeds
IoOutcomes(data) ==
  {[kind |-> "ok", written |-> Len(data)],
   [kind |-> "mkdir_fail", written |-> 0],
   [kind |-> "create_fail", written |-> 0]}
  \cup {[kind |-> "write_fail", written |-> k] : k \in {0, Len(data) \div 2}}

\* save_encrypted_data: the result and the content left at the path
save_encrypted_data(old, data, io) ==
  IF io.kind = "mkdir_fail"
  THEN [ok |-> FALSE, msg |-> "Failed to create directory", content |-> old]
  ELSE IF io.kind = "create_fail"
  THEN [ok |-> FALSE, msg |-> "Failed to write file", content |-> old]
  ELSE IF io.kind = "write_fail"
  THEN [ok |-> FALSE, msg |-> "Failed to write file",
        content |-> WriteAt0(FileCreate(old), SubSeq(data, 1, io.written))]
  ELSE [ok |-> TRUE, msg |-> "", content |-> WriteAt0(FileCreate(old), data)]

\* encrypt_json from final_data to its return: `built` is what
\* BuildContainer produced, `old` the content at the output location.  (A
\* relative output path makes encrypt_json itself call create_dir_all before
\* save_encrypted_data does; either failure is the outcome "mkdir_fail".)
PersistContainer(built, old, io) ==
  LET saved == save_encrypted_data(old, built.finalData, io)
  IN  IF built.tag # "Ok"
      THEN [tag |-> built.tag, msg |-> built.msg, content |-> old]
      ELSE IF ~saved.ok
      THEN [tag |-> "Err", msg |-> saved.msg, content |-> saved.content]
      ELSE [tag |-> "Ok", msg |-> "Encryption successful",
            content |-> saved.content]

-----------------------------------------------------------------------------
(* SpecCodec: the commands as whole calls on one machine, with the file    *)
(* at the output location also changed from outside the program           *)
(* (mislabelled, cut short, replaced).  `origin` records where the file's  *)
(* content came from; `call` is the last command and its result.           *)

\* {"a":1}
Payload7 == <<123,34,97,34,58,49,125>>
\* {"name":"José","items":[1,2,3],"note":"0123456789abcdef"}
Payload58 ==
  <<123,34,110,97,109,101,34,58,34,74,111,115,195,169,34,44,34,105,116,101,
    109,115,34,58,91,49,44,50,44,51,93,44,34,110,111,116,101,34,58,34,48,49,
    50,51,52,53,54,55,56,57,97,98,99,100,101,102,34,125>>

Payloads == {Payload7, Payload58}

\* char_key: absent, "X", ";", "é" and ""
EncCharKeys == {None, Some(<<88>>), Some(<<59>>), Some(<<195,169>>), Some(<<>>)}

\* the fallback char_key given to decrypt_json: absent, "X" or ";"
DecCharKeys == {None, Some(<<88>>), Some(<<59>>)}

\* "éPC": a multi-byte character that no truncation splits
HostAccentOk == <<195,169,80,67>>

CodecHosts ==
  {HostShort, HostAccent, HostAccentOk, HostSemi, HostEq, HostRaw,
   SubSeq(LongHost, 1, Min(19, MaxHostLen)), SubSeq(LongHost, 1, Min(23, MaxHostLen))}

CodecEnvs ==
  {[ipconfigOk |-> TRUE, adapters |-> <<AdVBox, AdEth>>, hostOk |-> TRUE, host |-> h] :
     h \in CodecHosts}
  \cup {[ipconfigOk |-> FALSE, adapters |-> <<>>, hostOk |-> FALSE, host |-> <<>>]}

\* files that no encrypt_json call wrote
CraftedFiles ==
  {<<255,255,255,255,1,2,3,4>>, <<0,0,1,0,1,2,3,4>>, <<0,0,0,0>>,
   <<3,0,0,0,77,65,67>>, <<4,0,0,0,77,65,67>>, <<2,0>>}

InitCodec ==
  /\ env \in CodecEnvs
  /\ file = NoFile
  /\ origin = NoOrigin
  /\ procs = [p \in Procs |-> IdleProc]
  /\ nCalls = 0
  /\ nEnvChanges = 0
  /\ call = NoCall

\* encrypt_json as one call: both resolver invocations see the same machine
Encrypt(jsonData, charKeyOpt, mac, hostname, built, io) ==
  /\ nCalls < MaxCalls
  /\ LET r == PersistContainer(built, file, io)
     IN  /\ call' = [op |-> "encrypt", tag |-> r.tag, msg |-> r.msg]
         /\ file' = r.content
         /\ origin' =
              IF r.tag = "Ok"
              THEN [kind |-> "encrypt", payload |-> jsonData,
                    charKeyOpt |-> charKeyOpt,
                    charKey |-> UnwrapOr(charKeyOpt, DefaultKeyChar),
                    mac |-> mac, hostname |-> hostname,
                    key |-> built.key, iv |-> built.iv,
                    realLen |-> Len(built.metadata), declared |-> Len(built.metadata)]
              ELSE IF r.content # file THEN [kind |-> "partial"]
              ELSE origin
  /\ nCalls' = nCalls + 1
  /\ UNCHANGED <<env, procs, nEnvChanges>>

EncryptAny ==
  \E computerInfo \in {get_computer_info(env)}, mac \in {get_mac_for_metadata(env)},
     hostname \in {get_hostname_for_metadata(env)} :
    \E jsonData \in Payloads, charKeyOpt \in EncCharKeys :
      \E built \in {BuildContainer(jsonData, charKeyOpt, computerInfo, mac, hostname)} :
        \E io \in IoOutcomes(built.finalData) :
          Encrypt(jsonData, charKeyOpt, mac, hostname, built, io)

Decrypt(charKeyOpt) ==
  /\ nCalls < MaxCalls
  /\ call' = [op |-> "decrypt", charKeyOpt |-> charKeyOpt,
              res |-> DecryptJson(file, charKeyOpt)]
  /\ nCalls' = nCalls + 1
  /\ UNCHANGED <<env, file, origin, procs, nEnvChanges>>

DecryptAny == \E charKeyOpt \in DecCharKeys : Decrypt(charKeyOpt)

\* config_exists: a stat of the default location
ConfigExists ==
  /\ nCalls < MaxCalls
  /\ call' = [op |-> "config_exists", tag |-> "Ok", exists |-> file # NoFile]
  /\ nCalls' = nCalls + 1
  /\ UNCHANGED <<env, file, origin, procs, nEnvChanges>>

\* outside the program: the length prefix of a written container is replaced
Mislabel(d) ==
  /\ origin.kind = "encrypt"
  /\ d >= 0 /\ d # origin.realLen
  /\ file' = ToLeBytes(d) \o SubSeq(file, 5, Len(file))
  /\ origin' = [origin EXCEPT !.kind = "mislabelled", !.declared = d]
  /\ call' = NoCall
  /\ UNCHANGED <<env, procs, nCalls, nEnvChanges>>

\* off by one, by one block, by just over a block, by two blocks
Skews == {-MaxSkew, -BlockSize, -1, 1, BlockSize, MaxSkew, 2 * BlockSize}

MislabelAny ==
  /\ origin.kind = "encrypt"
  /\ \E k \in Skews : Mislabel(origin.realLen + k)

\* outside the program: a written container is cut to its first n bytes
CutShort(n) ==
  /\ origin.kind = "encrypt"
  /\ n < Len(file)
  /\ file' = SubSeq(file, 1, n)
  /\ origin' = [kind |-> "cut"]
  /\ call' = NoCall
  /\ UNCHANGED <<env, procs, nCalls, nEnvChanges>>

CutShortAny == \E n \in 0..MaxTruncLen : CutShort(n)

\* outside the program: some other file is put at the location
PlaceFile(bytes) ==
  /\ origin.kind = "none"
  /\ file' = bytes
  /\ origin' = [kind |-> "crafted"]
  /\ call' = NoCall
  /\ UNCHANGED <<env, procs, nCalls, nEnvChanges>>

PlaceFileAny == \E bytes \in CraftedFiles : PlaceFile(bytes)

NextCodec ==
  \/ EncryptAny
  \/ DecryptAny
  \/ ConfigExists
  \/ MislabelAny
  \/ CutShortAny
  \/ PlaceFileAny

SpecCodec == InitCodec /\ [][NextCodec]_vars

-----------------------------------------------------------------------------
(* Claims checked under SpecCodec *)

Decrypted == call.op = "decrypt"

\* C1: decrypt_json on the container encrypt_json produced returns exactly
\* the original payload, for every payload, padding character, MAC and
\* hostname (decrypt_json being given no fallback character, or the
\* character encrypt_json was given).
C1_RoundTrip ==
  (Decrypted /\ origin.kind = "encrypt"
     /\ call.charKeyOpt \in {None, origin.charKeyOpt}) =>
     (call.res.tag = "Ok" /\ call.res.json = origin.payload)

\* the declared little-endian length is larger than what follows the prefix
DeclaredExceedsRemaining(f) ==
  \/ f[3] # 0
  \/ f[4] # 0
  \/ f[1] + 256 * f[2] > Len(f) - 4

Malformed(f) == f # NoFile /\ (Len(f) < 4 \/ DeclaredExceedsRemaining(f))

\* C2: a file shorter than 4 bytes, or one whose declared metadata length
\* exceeds the bytes remaining after the prefix, is rejected with a format
\* error before key derivation and decrypt_data are reached.
C2_MalformedRejected ==
  (Decrypted /\ Malformed(file)) =>
     /\ call.res.tag = "Err"
     /\ call.res.msg = (IF Len(file) < 4
                        THEN "File is too small to contain valid data"
                        ELSE "File is too small to contain complete metadata")
     /\ call.res.stage \in {"size", "metadata_len"}
     /\ call.res.cipherInput = <<>>
     /\ call.res.json = <<>>

\* a written container cut to at least 4 bytes, and decrypt_json run on it
C2_Witness ==
  /\ Decrypted
  /\ origin.kind = "cut"
  /\ Len(file) >= 4
  /\ DeclaredExceedsRemaining(file)
  /\ call.res.stage = "metadata_len"

\* the metadata segment 'MAC=..;HOST=..;KEY_CHAR=..;' of the written container
SegmentOf(o) ==
  <<77,65,67,61>> \o o.mac \o <<59,72,79,83,84,61>> \o o.hostname
    \o <<59,75,69,89,95,67,72,65,82,61>> \o o.charKey \o <<59>>

\* C3: in every container encrypt_json produces, the first 4 bytes read as
\* a little-endian uint32 equal the byte length of the metadata segment
\* that follows, and the ciphertext starts at offset 4 + that length.
C3_MetadataLength ==
  (origin.kind = "encrypt") =>
     LET n == file[1] + 256 * file[2] + 65536 * file[3] + 16777216 * file[4]
         segment == SegmentOf(origin)
         rest == SubSeq(file, 5 + n, Len(file))
     IN  /\ n = Len(segment)
         /\ SubSeq(file, 5, 4 + n) = segment
         /\ Len(rest) = BlockSize * ((Len(origin.payload) \div BlockSize) + 1)
         /\ rest = CbcEncrypt(origin.key, origin.iv, Pkcs7Pad(origin.payload))

\* a container whose metadata holds a multi-byte character
C3_Witness ==
  /\ origin.kind = "encrypt"
  /\ call.op = "encrypt" /\ call.tag = "Ok"
  /\ origin.hostname = HostAccentOk
  /\ origin.charKey = <<195,169>>
  /\ Len(file) > 4

\* C6: a container whose declared metadata length differs from the length
\* of the metadata record it carries makes decrypt_json return an error; a
\* truncated metadata prefix is never parsed with the rest of the record
\* handed to the cipher as ciphertext.
C6_MismatchFails ==
  (Decrypted /\ origin.kind = "mislabelled") =>
     /\ call.res.tag = "Err"
     /\ ~(origin.declared < origin.realLen /\ call.res.cipherInput # <<>>)

\* C9: encrypt_json, decrypt_json and config_exists return Ok or Err for
\* every input; none of them panics.
C9_NoPanic ==
  (call.op = "encrypt" => call.tag \in {"Ok", "Err"})
  /\ (call.op = "decrypt" => call.res.tag \in {"Ok", "Err"})
  /\ (call.op = "config_exists" => call.tag = "Ok")

\* C7: whenever encrypt_json returns an error the output location holds its
\* previous content or no file, never a partially written container.
C7_NoPartialFile ==
  [][(nCalls' # nCalls /\ call'.op = "encrypt" /\ call'.tag = "Err")
       => (file' = file \/ file' = NoFile)]_vars

-----------------------------------------------------------------------------
(* SpecConc: concurrent invocations.  Each command is a sequence of steps  *)
(* separated where it reads the machine or touches the file: the two       *)
(* resolver invocations of encrypt_json, File::create and write_all of     *)
(* fs::write, and fs::read of decrypt_json.  Between any two steps another *)
(* invocation may run and the machine's adapters or hostname may change.   *)

\* the machine, then with the Ethernet adapter gone, then renamed
EnvWired ==
  [ipconfigOk |-> TRUE, adapters |-> <<AdVBox, AdEth>>, hostOk |-> TRUE, host |-> HostShort]
EnvUnplugged ==
  [ipconfigOk |-> TRUE, adapters |-> <<AdVBox>>, hostOk |-> TRUE, host |-> HostShort]
EnvRenamed ==
  [ipconfigOk |-> TRUE, adapters |-> <<AdVBox, AdEth>>, hostOk |-> TRUE, host |-> HostEq]

ConcEnvs == {EnvWired, EnvUnplugged, EnvRenamed}

\* a container written by an earlier, completed encrypt_json call
EarlierContainer ==
  BuildContainer(Payload7, None, get_computer_info(EnvWired),
    get_mac_for_metadata(EnvWired), get_hostname_for_metadata(EnvWired)).finalData

NewProc(op, jsonData) ==
  [IdleProc EXCEPT !.pc = IF op = "encrypt" THEN "enc_info" ELSE "dec_read",
                   !.op = op, !.jsonData = jsonData]

InitConc ==
  /\ env = EnvWired
  /\ file \in {NoFile, EarlierContainer}
  /\ origin = [kind |-> "initial", content |-> file]
  /\ procs = [p \in Procs |-> IdleProc]
  /\ nCalls = 0
  /\ nEnvChanges = 0
  /\ call = NoCall

StartEncrypt(p, jsonData) ==
  /\ procs[p].pc = "idle"
  /\ procs' = [procs EXCEPT ![p] = NewProc("encrypt", jsonData)]
  /\ UNCHANGED <<env, file, origin, call, nCalls, nEnvChanges>>

StartDecrypt(p) ==
  /\ procs[p].pc = "idle"
  /\ procs' = [procs EXCEPT ![p] = NewProc("decrypt", <<>>)]
  /\ UNCHANGED <<env, file, origin, call, nCalls, nEnvChanges>>

\* let computer_info = get_computer_info();
EncComputerInfo(p) ==
  /\ procs[p].pc = "enc_info"
  /\ procs' = [procs EXCEPT ![p].computerInfo = get_computer_info(env),
                            ![p].pc = "enc_meta"]
  /\ UNCHANGED <<env, file, origin, call, nCalls, nEnvChanges>>

\* get_mac_for_metadata(), get_hostname_for_metadata() and everything up to
\* final_data
EncBuild(p) ==
  /\ procs[p].pc = "enc_meta"
  /\ \E mac \in {get_mac_for_metadata(env)}, hostname \in {get_hostname_for_metadata(env)} :
       \E built \in {BuildContainer(procs[p].jsonData, None, procs[p].computerInfo,
                                    mac, hostname)} :
         procs' = [procs EXCEPT ![p].mac = mac, ![p].hostname = hostname,
                                ![p].finalData = built.finalData,
                                ![p].tag = IF built.tag = "Ok" THEN "" ELSE built.tag,
                                ![p].msg = built.msg,
                                ![p].pc = IF built.tag = "Ok" THEN "enc_create" ELSE "done"]
  /\ UNCHANGED <<env, file, origin, call, nCalls, nEnvChanges>>

\* save_encrypted_data: create_dir_all, then File::create inside fs::write
EncCreate(p, ok) ==
  /\ procs[p].pc = "enc_create"
  /\ IF ok
     THEN /\ file' = FileCreate(file)
          /\ procs' = [procs EXCEPT ![p].pc = "enc_write"]
     ELSE /\ file' = file
          /\ procs' = [procs EXCEPT ![p].pc = "done", ![p].tag = "Err",
                                    ![p].msg = "Failed to save file"]
  /\ UNCHANGED <<env, origin, call, nCalls, nEnvChanges>>

\* write_all inside fs::write: all of final_data, or an error after `written`
EncWrite(p, written) ==
  /\ procs[p].pc = "enc_write"
  /\ file' = WriteAt0(file, SubSeq(procs[p].finalData, 1, written))
  /\ procs' = [procs EXCEPT
                 ![p].pc = "done",
                 ![p].tag = IF written = Len(procs[p].finalData) THEN "Ok" ELSE "Err",
                 ![p].msg = IF written = Len(procs[p].finalData)
                            THEN "Encryption successful" ELSE "Failed to save file"]
  /\ UNCHANGED <<env, origin, call, nCalls, nEnvChanges>>

\* fs::read(&input_path)
DecRead(p) ==
  /\ procs[p].pc = "dec_read"
  /\ procs' = IF file = NoFile
              THEN [procs EXCEPT ![p].pc = "done", ![p].tag = "Err",
                                 ![p].msg = "Failed to read file", ![p].data = NoFile]
              ELSE [procs EXCEPT ![p].pc = "dec_parse", ![p].data = file]
  /\ UNCHANGED <<env, file, origin, call, nCalls, nEnvChanges>>

\* the rest of decrypt_json on the bytes read
DecFinish(p) ==
  /\ procs[p].pc = "dec_parse"
  /\ \E r \in {DecryptBytes(procs[p].data, None)} :
       procs' = [procs EXCEPT ![p].pc = "done", ![p].tag = r.tag, ![p].msg = r.msg,
                              ![p].jsonData = r.json]
  /\ UNCHANGED <<env, file, origin, call, nCalls, nEnvChanges>>

\* an adapter is plugged or unplugged, or the machine is renamed
EnvChange(e) ==
  /\ nEnvChanges < MaxEnvChanges
  /\ e # env
  /\ env' = e
  /\ nEnvChanges' = nEnvChanges + 1
  /\ UNCHANGED <<file, origin, call, procs, nCalls>>

NextConc ==
  \/ \E p \in Procs, jsonData \in Payloads : StartEncrypt(p, jsonData)
  \/ \E p \in Procs : StartDecrypt(p)
  \/ \E p \in Procs : EncComputerInfo(p)
  \/ \E p \in Procs : EncBuild(p)
  \/ \E p \in Procs, ok \in BOOLEAN : EncCreate(p, ok)
  \/ \E p \in Procs : \E written \in {0, Len(procs[p].finalData)} : EncWrite(p, written)
  \/ \E p \in Procs : DecRead(p)
  \/ \E p \in Procs : DecFinish(p)
  \/ \E e \in ConcEnvs : EnvChange(e)

SpecConc == InitConc /\ [][NextConc]_vars

\* the complete contents the location can hold: what it held at the start
\* and the final_data of every encrypt_json call
CompleteContents ==
  {origin.content} \cup
  {procs[q].finalData : q \in {r \in Procs : procs[r].pc # "idle"
                                             /\ procs[r].op = "encrypt"
                                             /\ procs[r].finalData # <<>>}}

\* C8: under every interleaving, a decrypt_json running beside encrypt_json
\* calls on the same path reads the previous complete content or a complete
\* container written by exactly one encrypt_json call, never an empty,
\* truncated or mixed file.
C8_ReadsCompleteFile ==
  \A p \in Procs :
    (procs[p].pc # "idle" /\ procs[p].op = "decrypt"
       /\ procs[p].pc \in {"dec_parse", "done"})
      => procs[p].data \in CompleteContents

\* C10: the MAC and hostname written into the metadata record are the ones
\* the key and IV of that call were derived from.
C10_MetadataMatchesKey ==
  \A p \in Procs :
    (procs[p].pc \in {"enc_create", "enc_write", "done"} /\ procs[p].op = "encrypt")
      => procs[p].computerInfo = procs[p].mac \o procs[p].hostname

=============================================================================
